---- MODULE Spec2Model ----
(***************************************************************************)
(* The upload orchestration of the Pimg plugin: PimgPlugin in src/main.ts  *)
(* (the credits variant) and in src/unnamed/part_000 (the gist variant).   *)
(* One plugin instance on a single-threaded event loop: every action is    *)
(* the synchronous code that runs between two awaits.                      *)
(*                                                                         *)
(* Spec follows the calls of the public method uploadImageFile under every *)
(* setting the upload reads; SpecEvents follows the DOM events through the *)
(* listeners (which call uploadImageFile) under the listener flags.        *)
(*                                                                         *)
(* Texts (notices, error messages, markdown) are sequences of string       *)
(* tokens; a template string is the concatenation of its parts.            *)
(***************************************************************************)
EXTENDS Integers, Sequences, FiniteSets, TLC

\* Calls of uploadImageFile that can be past the gate check at once.
MaxCalls == 2
\* Items of one clipboard event, files of one drop event.
MaxItems == 2
\* The largest creditsBalance explored (stands in for the default of 500).
MaxCredits == 1

Calls == 1..MaxCalls

VARIABLES
    variant,        \* "credits" (src/main.ts) or "gist" (src/unnamed/part_000)
    loaded,         \* onload() has run
    settings,       \* this.settings
    isUploading,    \* this.isUploading
    dropRegistered, \* the dragover and drop listeners are registered
    runs,           \* the uploadImageFile calls that passed the precondition checks
    last            \* the DOM event dispatched by the last step and what its handler did

vars == <<variant, loaded, settings, isUploading, dropRegistered, runs, last>>

Variants == {"credits", "gist"}

----------------------------------------------------------------------------
\* Settings

\* A text field is empty or set.
TextValues == {"", "set"}

WORKER_URL == "https://obsidian-github-worker.mohammadsadiq4950.workers.dev"

\* The fields of PimgSettings; a field the variant does not have keeps the
\* value given here.
DEFAULT_SETTINGS(v) ==
    [pimgAPIKey         |-> "",
     githubAccessToken  |-> "",
     githubUsername     |-> "",
     githubRepository   |-> "",
     workerUrl          |-> IF v = "gist" THEN "set" ELSE WORKER_URL,
     enableOnPaste      |-> TRUE,
     enableOnDrop       |-> TRUE,
     showUploadProgress |-> TRUE,
     fallbackToLocal    |-> TRUE,
     creditsBalance     |-> IF v = "credits" THEN MaxCredits ELSE 0]

TextFields(v) ==
    IF v = "credits"
    THEN {"pimgAPIKey", "githubAccessToken", "githubUsername", "githubRepository"}
    ELSE {"githubAccessToken", "githubUsername", "workerUrl"}

ToggleFields == {"enableOnPaste", "enableOnDrop", "showUploadProgress", "fallbackToLocal"}

\* Fields the upload reads, and the flags the listeners read.
UploadFields(v) == TextFields(v) \cup {"showUploadProgress", "fallbackToLocal"}
ListenerFields == {"enableOnPaste", "enableOnDrop"}

\* What loadData() can return: nothing (first start), or a saved data.json, here
\* one with every text field filled in: with the default toggles, with drag and
\* drop disabled, or with the local fallback and the progress notice disabled.
NoData == [none |-> TRUE]

Configured(v) ==
    [f \in DOMAIN DEFAULT_SETTINGS(v) |->
        IF f \in TextFields(v) THEN "set" ELSE DEFAULT_SETTINGS(v)[f]]

StoredData(v) ==
    {Configured(v),
     [Configured(v) EXCEPT !.enableOnDrop = FALSE],
     [Configured(v) EXCEPT !.fallbackToLocal = FALSE, !.showUploadProgress = FALSE]}

\* Object.assign({}, DEFAULT_SETTINGS, await this.loadData())
loadSettings(v, data) == IF data = NoData THEN DEFAULT_SETTINGS(v) ELSE data

----------------------------------------------------------------------------
\* Texts

NoticeBusy == <<"Another upload is in progress. Please wait.">>
NoticeNoApiKey == <<"Pimg API key is not set. Please set it in the plugin settings.">>
NoticeNoToken == <<"GitHub Access Token is not set. Please set it in the plugin settings.">>
NoticeNoWorkerUrl == <<"Worker URL is not set. Please set it in the plugin settings.">>
NoticeNoCredits == <<"No credits remaining. Please purchase more credits.">>
NoticeUploading(v) ==
    IF v = "credits" THEN <<"Uploading image to GitHub...">> ELSE <<"Uploading image...">>
\* (the check mark that starts the source's text is left out)
NoticeSuccess(v) ==
    IF v = "credits" THEN <<"Image uploaded successfully!">>
    ELSE <<"Image uploaded successfully">>
NoticeSavingLocally(v) ==
    IF v = "credits" THEN <<"GitHub upload failed. Saving image locally...">>
    ELSE <<"Upload failed. Saving image locally...">>
NoticeUploadFailed(v, message) ==
    (IF v = "credits" THEN <<"GitHub upload failed: ">> ELSE <<"Upload failed: ">>)
        \o message
NoticeSavedLocally == <<"Image saved locally as fallback">>
NoticeBothFailed(v) ==
    IF v = "credits" THEN <<"Both GitHub upload and local fallback failed">>
    ELSE <<"Both Cloud upload and local fallback failed">>

\* `![${file.name}](${url})`
ImageMarkdown(name, url) == <<"![", name, "](">> \o url \o <<")">>

\* new Error(`HTTP ${response.status}: ${errorText}`)
HttpError(status, errorText) == <<"HTTP ", status, ": ", errorText>>
UploadFailedError == <<"Upload failed">>

\* What the environment can answer.  Names of the files of an event, by position.
FileNames == <<"image-1.png", "image-2.png", "image-3.png", "image-4.png">>
RemoteUrl == <<"https://cdn.example/x.png">>
\* app.vault.getResourcePath(created), for the file stored under the name
ResourcePath(name) == <<"app://local/attachments/", name>>
NetworkFault == <<"Failed to fetch">>
BodyFault == <<"Unexpected end of JSON input">>
EditorFault == <<"editor is read-only">>
SaveFault == <<"could not write data.json">>
\* The parsed response body {success, imageUrl?, error?}; <<>> is an absent field.
Bodies ==
    { [success |-> TRUE,  imageUrl |-> RemoteUrl, error |-> <<>>],
      [success |-> TRUE,  imageUrl |-> <<>>,      error |-> <<>>],
      [success |-> FALSE, imageUrl |-> <<>>,      error |-> <<>>],
      [success |-> FALSE, imageUrl |-> <<>>,      error |-> <<"quota exceeded">>] }
NoBody == [success |-> FALSE, imageUrl |-> <<>>, error |-> <<"(no body parsed)">>]

----------------------------------------------------------------------------
\* The DOM event the last step dispatched, and what the plugin's listener did
\* with it (kind "none": the last step was no event).

NoEvent ==
    [kind      |-> "none",  \* paste, drop, dragover; call: a direct call
     items     |-> <<>>,    \* the clipboard items, the dropped files
     view      |-> FALSE,   \* drop: a markdown view is active
     prevented |-> FALSE,   \* event.preventDefault() was called
     handed    |-> "",      \* the name of the file handed to uploadImageFile
     gate      |-> FALSE,   \* isUploading when uploadImageFile was entered
     call      |-> "none",  \* how that call went on: busy, config, credits, started
     notices   |-> <<>>,    \* the notices of a call that returned at a precondition
     run       |-> 0]       \* the entry of runs the call continues in

----------------------------------------------------------------------------
\* One call of uploadImageFile that passed the precondition checks.

IdleRun ==
    [pc       |-> "idle",   \* the await the call is suspended at; "done" once returned
     file     |-> "",       \* file.name
     progress |-> "none",   \* the progress Notice: none, shown, hidden
     notices  |-> <<>>,     \* every Notice the call created, in order
     inserted |-> <<>>,     \* every text the call passed to editor.replaceSelection
     posts    |-> 0,        \* fetch calls
     writes   |-> <<>>,     \* the name of the file of every vault.createBinary call
     remote   |-> "none",   \* what the remote upload produced: none, url, failed
     reason   |-> <<>>,     \* the message of the error the remote upload failed
                            \* with, until the catch block has read it
     body     |-> NoBody,   \* the response body, once parsed (kept as long)
     faults   |-> {},       \* the steps that threw or rejected
     saved    |-> <<>>,     \* creditsBalance in the settings of every saveSettings call
     fallback |-> "none",   \* settings.fallbackToLocal as the catch block read it
     settled  |-> "none"]   \* the promise of the call: pending, resolved, rejected

InFlight == {"fetch", "text", "json", "save", "path", "buffer", "write"}

\* The state the synchronous code of a call reads and writes.
World(c) == [r |-> runs[c], s |-> settings, g |-> isUploading]

Notify(w, n) == [w EXCEPT !.r.notices = Append(@, n)]

\* The step threw (or the promise it awaited rejected).
Fault(w, step) == [w EXCEPT !.r.faults = @ \cup {step}]

\* The call of notice.hide() is missing.
ProgressLeftShown(w) == w

\* if (notice) notice.hide();
HideProgress(w) ==
    IF w.r.progress = "shown" THEN [w EXCEPT !.r.progress = "hidden"] ELSE w

Suspend(w, at) == [w EXCEPT !.r.pc = at]

\* A return that leaves isUploading as it is: the assignment of the finally block
\* is missing.
FinallyKeepsGate(w, thrown) ==
    [w EXCEPT !.r.pc = "done",
              !.r.settled = IF thrown THEN "rejected" ELSE "resolved"]

\* A return that flips isUploading instead of clearing it.
FinallyTogglesGate(w, thrown) ==
    [w EXCEPT !.g = ~@,
              !.r.pc = "done",
              !.r.settled = IF thrown THEN "rejected" ELSE "resolved"]

\* finally { this.isUploading = false; } and the return; thrown: an error is
\* propagating out of the try statement.
Finally(w, thrown) ==
    [w EXCEPT !.g = FALSE,
              !.r.pc = "done",
              !.r.settled = IF thrown THEN "rejected" ELSE "resolved"]

\* fallbackToLocalSave up to its first await (getAvailablePathForAttachment);
\* the caught error is not read again
FallbackToLocalSave(w) ==
    Suspend([w EXCEPT !.r.reason = <<>>, !.r.body = NoBody], "path")

\* A local save whose failure leaves uploadImageFile: no catch block around it.
FallbackRethrows(w) == Finally(w, TRUE)

\* A catch block of the local save that only logs the error.
FallbackCatchSilent(w) == Finally(w, FALSE)

\* A catch block of the local save that starts the local save again.
FallbackRetries(w) == Suspend(w, "path")

\* catch (err) of fallbackToLocalSave, then the return into uploadImageFile
FallbackCatch(w) ==
    Finally(Notify(w, NoticeBothFailed(variant)), FALSE)

\* A local save that reports itself without the call of replaceSelection.
SavedWithoutInsertion(w) == Finally(Notify(w, NoticeSavedLocally), FALSE)

\* The last lines of the try block of fallbackToLocalSave: replaceSelection, the
\* notice, and the return into uploadImageFile
SavedLocally(w) ==
    Finally(Notify([w EXCEPT
                      !.r.inserted =
                          Append(@, ImageMarkdown(w.r.file, ResourcePath(w.r.file)))],
                   NoticeSavedLocally),
            FALSE)

\* A catch block that does not read settings.fallbackToLocal before it saves
\* locally.
CatchAlwaysSavesLocally(w, message) ==
    FallbackToLocalSave(
        Notify([HideProgress(w) EXCEPT
                   !.r.fallback = IF w.s.fallbackToLocal THEN "on" ELSE "off"],
               NoticeSavingLocally(variant)))

\* A catch block that posts the file again.
CatchRetriesUpload(w, message) ==
    Suspend([HideProgress(w) EXCEPT !.r.posts = @ + 1], "fetch")

\* A catch block that starts the local save without awaiting it: the finally
\* block runs first, and the call counts as in flight until the local save ends.
CatchDoesNotAwait(w, message) ==
    IF w.s.fallbackToLocal
    THEN FallbackToLocalSave(
            Notify([HideProgress(w) EXCEPT !.r.fallback = "on", !.g = FALSE],
                   NoticeSavingLocally(variant)))
    ELSE Finally(Notify([HideProgress(w) EXCEPT !.r.fallback = "off"],
                        NoticeUploadFailed(variant, message)), FALSE)

\* A catch block that only logs the error.
CatchSilent(w, message) == Finally(HideProgress(w), FALSE)

\* catch (error) of uploadImageFile
Catch(w, message) ==
    LET w1 == HideProgress(w) IN
    IF w1.s.fallbackToLocal
    THEN FallbackToLocalSave(
            Notify([w1 EXCEPT !.r.fallback = "on"], NoticeSavingLocally(variant)))
    ELSE Finally(Notify([w1 EXCEPT !.r.fallback = "off"],
                        NoticeUploadFailed(variant, message)), FALSE)

\* The remote upload (uploadToGitHub, uploadToGist) threw, or returned null and
\* uploadImageFile threw 'Upload failed'.
RemoteFailed(w, message) ==
    Catch([Fault(w, "remote") EXCEPT !.r.remote = "failed", !.r.reason = message],
          message)

\* The decrement is missing.
CreditNotSpent(w) == w

\* this.settings.creditsBalance--; (the credits variant only)
SpendCredit(w) ==
    IF variant = "credits" THEN [w EXCEPT !.s.creditsBalance = @ - 1] ELSE w

\* if (imageUrl) { ... } else { throw new Error('Upload failed') }, up to the
\* await of saveSettings; editorOk: replaceSelection does not throw.
AfterUpload(w, imageUrl, editorOk) ==
    IF imageUrl # <<>>
    THEN LET w1 == [w EXCEPT !.r.remote = "url"] IN
         IF editorOk
         THEN LET w2 == SpendCredit(
                  [w1 EXCEPT !.r.inserted = Append(@, ImageMarkdown(w.r.file, imageUrl))])
              IN Suspend([w2 EXCEPT !.r.saved = Append(@, w2.s.creditsBalance)], "save")
         ELSE Catch(Fault(w1, "insert"), EditorFault)
    ELSE RemoteFailed(w, UploadFailedError)

\* A success path that returns without clearing isUploading: the flag is cleared
\* in the catch block only.
UploadedKeepsGate(w) ==
    [Notify(HideProgress(w), NoticeSuccess(variant)) EXCEPT
        !.r.pc = "done", !.r.settled = "resolved"]

\* The lines after await this.saveSettings(), to the return
Uploaded(w) == Finally(Notify(HideProgress(w), NoticeSuccess(variant)), FALSE)

\* The step of call c ends in world w.
Commit(c, w) ==
    /\ runs' = [runs EXCEPT ![c] = w.r]
    /\ settings' = w.s
    /\ isUploading' = w.g
    /\ last' = NoEvent
    /\ UNCHANGED <<variant, loaded, dropRegistered>>

\* await fetch(...): a network fault, or a response whose ok is true or false
FetchSettles(c) ==
    /\ runs[c].pc = "fetch"
    /\ \E answer \in {"fault", "ok", "not ok"} :
          Commit(c, CASE answer = "fault" -> RemoteFailed(World(c), NetworkFault)
                      [] answer = "ok" -> Suspend(World(c), "json")
                      [] answer = "not ok" -> Suspend(World(c), "text"))

\* await response.text() of a response that is not ok, and the throw
TextSettles(c) ==
    /\ runs[c].pc = "text"
    /\ \E read \in BOOLEAN :
          Commit(c, IF read
                    THEN RemoteFailed(World(c), HttpError("500", "internal error"))
                    ELSE RemoteFailed(World(c), BodyFault))

\* await response.json(), return result.success ? result.imageUrl : null
JsonSettles(c) ==
    /\ runs[c].pc = "json"
    /\ \/ Commit(c, RemoteFailed(World(c), BodyFault))
       \/ \E result \in Bodies, editorOk \in BOOLEAN :
             Commit(c, AfterUpload([World(c) EXCEPT !.r.body = result],
                                   IF result.success THEN result.imageUrl ELSE <<>>,
                                   editorOk))

\* await this.saveSettings() on the success path
SaveSettles(c) ==
    /\ runs[c].pc = "save"
    /\ \E saved \in BOOLEAN :
          Commit(c, IF saved THEN Uploaded(World(c))
                    ELSE Catch(Fault(World(c), "save"), SaveFault))

\* await this.app.fileManager.getAvailablePathForAttachment(...)
PathSettles(c) ==
    /\ runs[c].pc = "path"
    /\ \E found \in BOOLEAN :
          Commit(c, IF found THEN Suspend(World(c), "buffer")
                    ELSE FallbackCatch(Fault(World(c), "path")))

\* await file.arrayBuffer(), then the call of vault.createBinary
BufferSettles(c) ==
    /\ runs[c].pc = "buffer"
    /\ \E read \in BOOLEAN :
          Commit(c, IF read
                    THEN Suspend([World(c) EXCEPT !.r.writes = Append(@, runs[c].file)], "write")
                    ELSE FallbackCatch(Fault(World(c), "buffer")))

\* await this.app.vault.createBinary(...), getResourcePath, replaceSelection,
\* the notice and the return; threw: the first of these steps that throws
WriteSettles(c) ==
    /\ runs[c].pc = "write"
    /\ \E threw \in {"write", "resolve", "local insert", "none"} :
          Commit(c, IF threw = "none" THEN SavedLocally(World(c))
                    ELSE FallbackCatch(Fault(World(c), threw)))

----------------------------------------------------------------------------
\* uploadImageFile up to its first await

\* A check that never refuses a call.
GateNeverBusy == FALSE

\* if (this.isUploading)
GateBusy == isUploading

\* No configuration check at all.
NothingMissing == <<>>

\* The notice of the first configuration check that fails, <<>> when none does.
MissingSetting ==
    IF variant = "credits"
    THEN IF settings.pimgAPIKey = "" THEN NoticeNoApiKey ELSE <<>>
    ELSE IF settings.githubAccessToken = "" THEN NoticeNoToken
         ELSE IF settings.workerUrl = "" THEN NoticeNoWorkerUrl
         ELSE <<>>

\* No credits check.
CreditsNeverChecked == FALSE

\* if (this.settings.creditsBalance <= 0) (the credits variant only)
NoCredits == variant = "credits" /\ settings.creditsBalance <= 0

\* The entry of runs a new call continues in: the first one no call is in flight in.
FreeRuns == {c \in Calls : runs[c].pc \notin InFlight}
FreeRun == CHOOSE c \in FreeRuns : \A d \in FreeRuns : c <= d

\* A return at a failed precondition that clears isUploading, as it would with
\* the checks inside the try statement.
ReturnReleases(ev, how, notice) ==
    /\ last' = [ev EXCEPT !.call = how, !.notices = <<notice>>]
    /\ isUploading' = FALSE
    /\ UNCHANGED <<variant, loaded, settings, dropRegistered, runs>>

\* A precondition fails: the notice and the return.
Return(ev, how, notice) ==
    /\ last' = [ev EXCEPT !.call = how, !.notices = <<notice>>]
    /\ UNCHANGED <<variant, loaded, settings, isUploading, dropRegistered, runs>>

\* this.isUploading = true, the progress notice, and uploadToGitHub (uploadToGist)
\* up to await fetch(...)
Acquire(ev, name) ==
    /\ FreeRuns # {}
    /\ isUploading' = TRUE
    /\ runs' = [runs EXCEPT ![FreeRun] =
          [IdleRun EXCEPT
              !.pc = "fetch",
              !.file = name,
              !.progress = IF settings.showUploadProgress THEN "shown" ELSE "none",
              !.notices = IF settings.showUploadProgress
                          THEN <<NoticeUploading(variant)>> ELSE <<>>,
              !.posts = 1,
              !.settled = "pending"]]
    /\ last' = [ev EXCEPT !.call = "started", !.run = FreeRun]
    /\ UNCHANGED <<variant, loaded, settings, dropRegistered>>

\* uploadImageFile(file, editor, view), called by the listener of event ev
uploadImageFile(ev, name) ==
    LET e == [ev EXCEPT !.handed = name, !.gate = isUploading] IN
    IF GateBusy THEN Return(e, "busy", NoticeBusy)
    ELSE IF MissingSetting # <<>> THEN Return(e, "config", MissingSetting)
    ELSE IF NoCredits THEN Return(e, "credits", NoticeNoCredits)
    ELSE Acquire(e, name)

----------------------------------------------------------------------------
\* The listeners

ImageType == "image/png"
\* item.type.startsWith('image/')
IsImage(type) == type = ImageType

\* A clipboard item: its type, and whether getAsFile() returns a file.
ClipboardItems ==
    {[type |-> ImageType, file |-> TRUE], [type |-> ImageType, file |-> FALSE],
     [type |-> "text/plain", file |-> FALSE]}
\* A dropped file.
DroppedFiles == [type : {ImageType, "application/pdf"}, file : {TRUE}]

SeqsUpTo(S, n) == UNION {[1..k -> S] : k \in 0..n}

\* event.clipboardData: null, or its items
NoClipboard == <<[type |-> "null", file |-> FALSE]>>
Clipboards == {NoClipboard} \cup SeqsUpTo(ClipboardItems, MaxItems)
\* event.dataTransfer?.files
Drops == SeqsUpTo(DroppedFiles, MaxItems)

\* A loop without its break: the last image file from index i on, 0 when there
\* is none.
ScanToTheEnd(items, i) ==
    LET found == {j \in i..Len(items) : IsImage(items[j].type) /\ items[j].file} IN
    IF found = {} THEN 0 ELSE CHOOSE j \in found : \A k \in found : k <= j

\* The for loop of handlePaste and of the drop listener, from index i on: the
\* index of the item it hands to uploadImageFile and breaks at, 0 when it ends
\* without one.
RECURSIVE Scan(_, _)
Scan(items, i) ==
    IF i > Len(items) THEN 0
    ELSE IF IsImage(items[i].type) /\ items[i].file THEN i
    ELSE Scan(items, i + 1)

\* The listener does nothing with the event.
Ignore(ev) ==
    /\ last' = ev
    /\ UNCHANGED <<variant, loaded, settings, isUploading, dropRegistered, runs>>

\* event.preventDefault(); await this.uploadImageFile(file, ...); break;
Intercept(ev, items) ==
    IF Scan(items, 1) = 0 THEN Ignore(ev)
    ELSE uploadImageFile([ev EXCEPT !.prevented = TRUE], FileNames[Scan(items, 1)])

\* The 'editor-paste' listener and handlePaste
PasteEvent ==
    /\ loaded
    /\ \E data \in Clipboards :
          LET ev == [NoEvent EXCEPT !.kind = "paste", !.items = data] IN
          IF settings.enableOnPaste /\ data # NoClipboard
          THEN Intercept(ev, data)
          ELSE Ignore(ev)

\* The 'drop' listener, when one is registered
DropEvent ==
    /\ loaded
    /\ \E files \in Drops, activeView \in BOOLEAN :
          LET ev == [NoEvent EXCEPT !.kind = "drop", !.items = files,
                                    !.view = activeView] IN
          IF dropRegistered /\ activeView
          THEN Intercept(ev, files)
          ELSE Ignore(ev)

\* The 'dragover' listener, when one is registered
DragOverEvent ==
    /\ loaded
    /\ Ignore([NoEvent EXCEPT !.kind = "dragover", !.prevented = dropRegistered])

----------------------------------------------------------------------------
\* onload and the settings tab

\* registerDragAndDrop() runs only here, under the flag as loaded
Onload ==
    /\ ~loaded
    /\ \E data \in {NoData} \cup StoredData(variant) :
          /\ settings' = loadSettings(variant, data)
          /\ dropRegistered' = settings'.enableOnDrop
    /\ loaded' = TRUE
    /\ last' = NoEvent
    /\ UNCHANGED <<variant, isUploading, runs>>

\* onChange of a toggle or of a text field among fields: the assignment
\* (saveSettings follows)
Changed(fields) ==
    /\ loaded
    /\ \E f \in fields :
          \E value \in IF f \in ToggleFields THEN BOOLEAN ELSE TextValues :
             /\ value # settings[f]
             /\ settings' = [settings EXCEPT ![f] = value]
    /\ last' = NoEvent
    /\ UNCHANGED <<variant, loaded, isUploading, dropRegistered, runs>>

SettingChanged == Changed(UploadFields(variant))
ListenerToggled == Changed(ListenerFields)

\* A call of the public method uploadImageFile
Call ==
    /\ loaded
    /\ \E i \in 1..MaxItems :
          uploadImageFile([NoEvent EXCEPT !.kind = "call"], FileNames[i])

----------------------------------------------------------------------------

Init ==
    /\ variant \in Variants
    /\ loaded = FALSE
    /\ settings = DEFAULT_SETTINGS(variant)
    /\ isUploading = FALSE
    /\ dropRegistered = FALSE
    /\ runs = [c \in Calls |-> IdleRun]
    /\ last = NoEvent

Step ==
    \E c \in Calls :
        \/ FetchSettles(c)
        \/ TextSettles(c)
        \/ JsonSettles(c)
        \/ SaveSettles(c)
        \/ PathSettles(c)
        \/ BufferSettles(c)
        \/ WriteSettles(c)

Next ==
    \/ Onload
    \/ SettingChanged
    \/ Call
    \/ Step

Spec == Init /\ [][Next]_vars

\* Every promise a call awaits settles in the end.
SpecSettling == Spec /\ WF_vars(Step)

NextEvents ==
    \/ Onload
    \/ ListenerToggled
    \/ PasteEvent
    \/ DropEvent
    \/ DragOverEvent
    \/ Step

SpecEvents == Init /\ [][NextEvents]_vars

----------------------------------------------------------------------------
\* Properties of uploadImageFile, checked under Spec

\* The calls that passed the isUploading check and have not returned.
PastGate == {c \in Calls : runs[c].pc \in InFlight}

Returned(c) == runs[c].pc = "done"

\* The calls that were in flight when the call of last was made.
InFlightAtCall == PastGate \ {last.run}

\* text occurs in notice
Contains(notice, text) ==
    \E i \in 1..(Len(notice) + 1) :
        /\ i + Len(text) - 1 <= Len(notice)
        /\ SubSeq(notice, i, i + Len(text) - 1) = text

\* The notices of call c that report a failure.
FailureNotices(c) ==
    LET reports(n) ==
            n \notin {NoticeUploading(variant), NoticeSuccess(variant), NoticeSavedLocally}
    IN SelectSeq(runs[c].notices, reports)

\* C1 (mutual exclusion). At every instant at most one call of uploadImageFile
\* is past the isUploading check. A call made while another call is suspended at
\* an await is refused: it shows the busy notice and only that, and no run is
\* created for it (no fetch, no createBinary, no replaceSelection, now or later).
C1_MutualExclusion ==
    /\ Cardinality(PastGate) <= 1
    /\ (last.handed # "" /\ InFlightAtCall # {})
       => /\ last.call = "busy"
          /\ last.notices = <<NoticeBusy>>
          /\ last.run = 0

\* A call was refused while another call waits for vault.createBinary.
C1_RefusedDuringLocalWrite ==
    /\ last.call = "busy"
    /\ \E c \in PastGate : runs[c].pc = "write"

\* C2 (gate release). isUploading is true only while a call is between the
\* isUploading check and its return: once the call has returned, whatever its
\* outcome, isUploading is false; a call that returns at a configuration or
\* credits check leaves it false; and a call is refused as busy only while
\* another call is in flight, so the call that follows a return passes the check.
C2_GateReleased ==
    /\ PastGate = {} => ~isUploading
    /\ last.call \in {"config", "credits"} => ~isUploading
    /\ last.call = "busy" => PastGate # {}

\* A call has returned after the remote upload and then a step of the local save
\* failed, and isUploading is false.
C2_ReleasedAfterBothFailed ==
    \E c \in Calls :
        /\ Returned(c)
        /\ runs[c].remote = "failed"
        /\ runs[c].faults \cap {"path", "buffer", "write", "resolve", "local insert"} # {}
        /\ ~isUploading

\* C3 (fallback composition). When the remote upload fails, the catch block reads
\* fallbackToLocal as true and no step of the local save fails, the call wrote the
\* file once with createBinary and made one insertion, the reference to the local
\* resource path of the file.
C3_FallbackComposition ==
    \A c \in Calls :
        (/\ Returned(c)
         /\ runs[c].fallback = "on"
         /\ runs[c].faults = {"remote"})
        => /\ runs[c].writes = <<runs[c].file>>
           /\ runs[c].inserted =
                  <<ImageMarkdown(runs[c].file, ResourcePath(runs[c].file))>>

\* A call returned from a local save that followed a failed remote upload.
C3_SavedAfterRemoteFailure ==
    \E c \in Calls :
        /\ Returned(c)
        /\ runs[c].remote = "failed"
        /\ runs[c].fallback = "on"
        /\ runs[c].faults = {"remote"}
        /\ runs[c].writes # <<>>

\* C4 (no fallback when disabled). When the remote upload fails and the catch
\* block reads fallbackToLocal as false, the call made no createBinary call and
\* no insertion, and showed one failure notice, which contains the message of the
\* error the remote upload failed with.
C4_NoFallbackWhenDisabled ==
    \A c \in Calls :
        (/\ Returned(c)
         /\ runs[c].remote = "failed"
         /\ runs[c].fallback = "off")
        => /\ runs[c].writes = <<>>
           /\ runs[c].inserted = <<>>
           /\ Len(FailureNotices(c)) = 1
           /\ runs[c].reason # <<>>
           /\ Contains(FailureNotices(c)[1], runs[c].reason)

\* A call returned after the endpoint answered with a status that is not ok and
\* the catch block read fallbackToLocal as false.
C4_FailedWithoutFallback ==
    \E c \in Calls :
        /\ Returned(c)
        /\ runs[c].remote = "failed"
        /\ runs[c].fallback = "off"
        /\ runs[c].reason = HttpError("500", "internal error")

\* C5 (success path), on the calls whose replaceSelection accepted the text: when
\* the remote upload returns a URL, the call made one insertion, the reference to
\* that URL, dismissed the progress notice, showed the success notice and made no
\* createBinary call.
C5_SuccessPath ==
    \A c \in Calls :
        (/\ Returned(c)
         /\ runs[c].remote = "url"
         /\ runs[c].inserted # <<>>)
        => /\ runs[c].inserted = <<ImageMarkdown(runs[c].file, RemoteUrl)>>
           /\ runs[c].progress # "shown"
           /\ \E i \in DOMAIN runs[c].notices :
                  runs[c].notices[i] = NoticeSuccess(variant)
           /\ runs[c].writes = <<>>

\* C6 (nothing propagates). The promise of uploadImageFile is never rejected:
\* whichever step failed, the call returns normally, and a notice reports the
\* failure.
C6_NothingPropagates ==
    \A c \in Calls :
        /\ runs[c].settled # "rejected"
        /\ Returned(c)
           => /\ runs[c].settled = "resolved"
              /\ runs[c].faults # {} => FailureNotices(c) # <<>>

\* A call returned after the remote upload failed and the insertion of the local
\* save threw.
C6_ReturnedAfterLocalInsertionThrew ==
    \E c \in Calls :
        /\ Returned(c)
        /\ runs[c].faults = {"remote", "local insert"}
        /\ runs[c].settled = "resolved"

\* C7 (configuration precondition). A call made while no call is in flight and
\* a checked setting is empty (pimgAPIKey; githubAccessToken or workerUrl in the
\* gist variant) returns at the check: one notice, which names the first empty
\* setting, no run (no fetch, no createBinary, no replaceSelection), and
\* isUploading false.
C7_ConfigurationPrecondition ==
    LET empty == IF variant = "credits"
                 THEN IF settings.pimgAPIKey = "" THEN NoticeNoApiKey ELSE <<>>
                 ELSE IF settings.githubAccessToken = "" THEN NoticeNoToken
                 ELSE IF settings.workerUrl = "" THEN NoticeNoWorkerUrl
                 ELSE <<>>
    IN (last.handed # "" /\ InFlightAtCall = {} /\ empty # <<>>)
       => /\ last.call = "config"
          /\ last.notices = <<empty>>
          /\ last.run = 0
          /\ ~isUploading

\* A call returned at the workerUrl check of the gist variant.
C7_ReturnedAtWorkerUrlCheck ==
    /\ variant = "gist"
    /\ settings.githubAccessToken # ""
    /\ settings.workerUrl = ""
    /\ last.call = "config"
    /\ last.notices = <<NoticeNoWorkerUrl>>

----------------------------------------------------------------------------
\* Properties of the listeners, checked under SpecEvents

\* The first item of image type, 0 when there is none.
FirstImageTyped(items) ==
    LET typed == {i \in DOMAIN items : IsImage(items[i].type)} IN
    IF typed = {} THEN 0 ELSE CHOOSE i \in typed : \A j \in typed : i <= j

\* The first item of image type that getAsFile() returns a file for, 0 when there
\* is none.
FirstImageFile(items) ==
    LET files == {i \in DOMAIN items : IsImage(items[i].type) /\ items[i].file} IN
    IF files = {} THEN 0 ELSE CHOOSE i \in files : \A j \in files : i <= j

\* The paste event of last reached handlePaste with clipboard data.
PasteHandled ==
    /\ last.kind = "paste"
    /\ settings.enableOnPaste
    /\ last.items # NoClipboard

\* C8 as stated (first image typed item). When a paste event carries two items
\* of image type, the first of them is handed to uploadImageFile and the default
\* handling of the event is suppressed.
C8_FirstImageTypedHanded ==
    (/\ PasteHandled
     /\ \E i, j \in DOMAIN last.items :
           i < j /\ IsImage(last.items[i].type) /\ IsImage(last.items[j].type))
    => /\ last.handed = FileNames[FirstImageTyped(last.items)]
       /\ last.prevented

\* C8 (one extraction per paste). A paste event that reaches handlePaste hands
\* to uploadImageFile the first item of image type that getAsFile() returns a
\* file for, makes that one call and suppresses the default handling of the event;
\* when there is no such item it makes no call and suppresses nothing.
C8_FirstImageFileHanded ==
    PasteHandled
    => IF FirstImageFile(last.items) = 0
       THEN last.handed = "" /\ ~last.prevented /\ last.call = "none"
       ELSE /\ last.handed = FileNames[FirstImageFile(last.items)]
            /\ last.prevented
            /\ last.call # "none"

\* A paste whose first item of image type has no file and whose second has one.
C8_SecondItemHanded ==
    /\ PasteHandled
    /\ Len(last.items) = 2
    /\ IsImage(last.items[1].type) /\ ~last.items[1].file
    /\ last.handed = FileNames[2]

\* C9 (flag gating). While enableOnPaste is false a paste event is left alone,
\* and while enableOnDrop is false a drop event is left alone: nothing is handed
\* to uploadImageFile and the default handling is not suppressed.
C9_FlagGating ==
    /\ (last.kind = "paste" /\ ~settings.enableOnPaste)
       => (last.handed = "" /\ ~last.prevented)
    /\ (last.kind = "drop" /\ ~settings.enableOnDrop)
       => (last.handed = "" /\ ~last.prevented)

\* C10 (dragover). While enableOnDrop is true the default handling of every
\* dragover event is suppressed.
C10_DragOverPrevented ==
    (last.kind = "dragover" /\ settings.enableOnDrop) => last.prevented

C12_FallbackOnlyAfterRemoteFailure ==
    \A c \in Calls :
        runs[c].remote = "url"
        => /\ runs[c].writes = <<>>
           /\ FailureNotices(c) = <<>>

\* C13 (one insertion). Whatever the outcomes of the steps, a call passes at
\* most one image reference to editor.replaceSelection.
C13_AtMostOneInsertion ==
    \A c \in Calls : Len(runs[c].inserted) <= 1

\* C14 as stated (one failure notice). A returned call whose remote upload
\* failed has shown one notice that reports a failure, whether the local save
\* was not tried, succeeded or failed.
C14_OneFailureNotice ==
    \A c \in Calls :
        (Returned(c) /\ runs[c].remote = "failed")
        => Len(FailureNotices(c)) = 1

\* C14 (failure notices). A returned call whose remote upload failed has shown:
\* with fallbackToLocal false, one failure notice, the one with the message;
\* with fallbackToLocal true, the notice that the upload failed and the image is
\* being saved locally, followed by one notice of the local save: that the image
\* was saved, or, when a step of the local save failed, that both failed (a
\* second failure notice).
C14_FailureNotices ==
    \A c \in Calls :
        (Returned(c) /\ runs[c].remote = "failed")
        => LET shown == runs[c].notices
               final == shown[Len(shown)]
           IN CASE runs[c].fallback = "off" ->
                     FailureNotices(c) = <<NoticeUploadFailed(variant, runs[c].reason)>>
                [] runs[c].fallback = "on" /\ runs[c].faults = {"remote"} ->
                     /\ FailureNotices(c) = <<NoticeSavingLocally(variant)>>
                     /\ final = NoticeSavedLocally
                [] OTHER ->
                     /\ runs[c].fallback = "on"
                     /\ FailureNotices(c) =
                            <<NoticeSavingLocally(variant), NoticeBothFailed(variant)>>
                     /\ final = NoticeBothFailed(variant)

\* A call returned after the remote upload failed and createBinary rejected.
C14_BothFailedShown ==
    \E c \in Calls :
        /\ Returned(c)
        /\ runs[c].faults = {"remote", "write"}
        /\ Len(FailureNotices(c)) = 2

\* C15 (embedded error message). When the endpoint answers 2xx with a body whose
\* success is false and whose error carries a message, and the catch block reads
\* fallbackToLocal as false, the message the upload failed with is that error
\* message and the failure notice shows it.
C15_EmbeddedErrorShown ==
    \A c \in Calls :
        (/\ Returned(c)
         /\ runs[c].remote = "failed"
         /\ runs[c].fallback = "off"
         /\ runs[c].body \in Bodies
         /\ ~runs[c].body.success
         /\ runs[c].body.error # <<>>)
        => /\ runs[c].reason = runs[c].body.error
           /\ \E i \in DOMAIN runs[c].notices :
                  Contains(runs[c].notices[i], runs[c].body.error)

\* C16 (no network call with an empty sent field). A call made while no call is
\* in flight and a setting the variant sends to the endpoint is empty (pimgAPIKey,
\* githubAccessToken, githubUsername, githubRepository; workerUrl,
\* githubAccessToken, githubUsername in the gist variant) returns at a
\* configuration check with a notice, and no fetch is made.
C16_SentFieldsChecked ==
    (/\ last.handed # ""
     /\ InFlightAtCall = {}
     /\ \E f \in TextFields(variant) : settings[f] = "")
    => /\ last.call = "config"
       /\ last.run = 0

\* C17 (fallback failure is terminal). When the remote upload failed, the catch
\* block read fallbackToLocal as true, and path allocation, createBinary or
\* getResourcePath failed, the call returned with no insertion, its last notice
\* is the 'both failed' one, and it made one fetch and at most one createBinary
\* call (none when path allocation failed).
C17_FallbackFailureTerminal ==
    \A c \in Calls :
        (/\ Returned(c)
         /\ runs[c].remote = "failed"
         /\ runs[c].fallback = "on"
         /\ runs[c].faults \cap {"path", "write", "resolve"} # {})
        => /\ runs[c].inserted = <<>>
           /\ runs[c].notices[Len(runs[c].notices)] = NoticeBothFailed(variant)
           /\ runs[c].posts = 1
           /\ Len(runs[c].writes) <= 1
           /\ "path" \in runs[c].faults => runs[c].writes = <<>>

\* A call returned after the remote upload failed and getResourcePath threw on
\* the file the local save had written.
C17_ResolveFailedAfterWrite ==
    \E c \in Calls :
        /\ Returned(c)
        /\ runs[c].faults = {"remote", "resolve"}
        /\ runs[c].writes = <<runs[c].file>>

\* C18 (no retry). A call makes at most one fetch and at most one createBinary
\* call, whatever the outcome; a call that has returned made exactly one fetch.
C18_NoRetry ==
    \A c \in Calls :
        /\ runs[c].posts <= 1
        /\ Len(runs[c].writes) <= 1
        /\ Returned(c) => runs[c].posts = 1

\* A call returned after its one fetch failed and its one createBinary call
\* rejected.
C18_FailedTwiceReturned ==
    \E c \in Calls :
        /\ Returned(c)
        /\ runs[c].faults = {"remote", "write"}
        /\ runs[c].posts = 1
        /\ Len(runs[c].writes) = 1

\* C19 (drop interception), while enableOnDrop is true. A drop event without an
\* active markdown view is left alone: no preventDefault, nothing handed to
\* uploadImageFile. With an active view the default handling is suppressed
\* exactly when a dropped file is of image type, and then the first such file, and
\* only it, is handed to uploadImageFile.
C19_DropInterception ==
    (last.kind = "drop" /\ settings.enableOnDrop)
    => IF last.view
       THEN /\ last.prevented <=> FirstImageTyped(last.items) # 0
            /\ IF FirstImageTyped(last.items) # 0
               THEN /\ last.handed = FileNames[FirstImageTyped(last.items)]
                    /\ last.call # "none"
               ELSE last.handed = "" /\ last.call = "none"
       ELSE ~last.prevented /\ last.handed = "" /\ last.call = "none"

\* C20 (release is the final step). Whatever a call does after its first await
\* (a createBinary call, an insertion, the start of saveSettings, a notice), it
\* does in a step that begins with isUploading true; a step in which a call that
\* was not in flight does anything is the start of a call, which sets isUploading
\* before its fetch; and a call that has returned, and so cleared isUploading,
\* does nothing more.
C20_ReleaseIsFinalStep ==
    [][\A c \in Calls :
          runs'[c] # runs[c]
          => IF runs[c].pc \in InFlight
             THEN isUploading
             ELSE /\ runs'[c].pc = "fetch"
                  /\ runs'[c].posts = 1
                  /\ isUploading']_vars

\* A call is waiting for createBinary, after a failed fetch, with isUploading
\* true.
C20_WritingWhileLocked ==
    /\ isUploading
    /\ \E c \in Calls : runs[c].pc = "write" /\ runs[c].writes = <<runs[c].file>>

\* C21 (a rejected call leaves the gate alone). A call that returns at the
\* isUploading check, at a configuration check or at the credits check does not
\* change isUploading, nor anything of the calls in flight: after a call refused
\* as busy isUploading is still true.
C21_RejectionLeavesGate ==
    [][last'.call \in {"busy", "config", "credits"}
       => /\ isUploading' = isUploading
          /\ runs' = runs
          /\ last'.call = "busy" => isUploading']_vars

\* A call was refused as busy and the call waiting for saveSettings still holds
\* isUploading.
C21_RefusedWhileSaving ==
    /\ last.call = "busy"
    /\ isUploading
    /\ \E c \in PastGate : runs[c].pc = "save"

----------------------------------------------------------------------------
\* Liveness, checked under SpecSettling

\* C22 (liveness). If every awaited fetch, file and settings operation settles,
\* a call that set isUploading clears it in the end; until it returns the flag
\* stays set: nothing else clears it while a call is in flight.
C22_EventuallyReleased ==
    /\ isUploading ~> ~isUploading
    /\ [](PastGate # {} => isUploading)

\* A call that inserted the remote reference has returned and isUploading is
\* false again.
C22_ReleasedAfterUpload ==
    /\ ~isUploading
    /\ \E c \in Calls :
          /\ Returned(c)
          /\ runs[c].faults = {}
          /\ runs[c].inserted = <<ImageMarkdown(runs[c].file, RemoteUrl)>>

----------------------------------------------------------------------------
\* Credits (the credits variant), checked under Spec

\* C23 (credits never negative). creditsBalance is never negative; and a call
\* made with creditsBalance <= 0 returns with one notice and without a run (no
\* fetch, isUploading not set by it): the notice of the credits check when no
\* call is in flight and pimgAPIKey is set, the notice of the earlier check that
\* refused it otherwise.
C23_CreditsNeverNegative ==
    variant = "credits"
    => /\ settings.creditsBalance >= 0
       /\ (last.handed # "" /\ settings.creditsBalance <= 0)
          => /\ last.call \in {"busy", "config", "credits"}
             /\ last.run = 0
             /\ Len(last.notices) = 1
             /\ (InFlightAtCall = {} /\ settings.pimgAPIKey # "")
                => /\ last.call = "credits"
                   /\ last.notices = <<NoticeNoCredits>>
                   /\ ~isUploading

\* The last credit is spent and the next call returned at the credits check.
C23_RefusedWithoutCredits ==
    /\ variant = "credits"
    /\ settings.creditsBalance = 0
    /\ last.call = "credits"

\* The remote upload of call c returns a URL in this step.
UrlReturned(c) == runs[c].remote # "url" /\ runs'[c].remote = "url"

\* C24 as stated (one credit per URL). In the step in which the remote upload of
\* a call returns a URL creditsBalance goes down by 1, and the settings passed to
\* saveSettings carry the new value; no other step changes creditsBalance.
C24_CreditPerUrl ==
    [][variant = "credits"
       => IF \E c \in Calls : UrlReturned(c)
          THEN \E c \in Calls :
                  /\ UrlReturned(c)
                  /\ settings'.creditsBalance = settings.creditsBalance - 1
                  /\ runs'[c].saved = <<settings'.creditsBalance>>
          ELSE settings'.creditsBalance = settings.creditsBalance]_vars

\* C24 (one credit per inserted URL). In the step in which the remote upload of
\* a call returns a URL and replaceSelection accepts the reference, creditsBalance
\* goes down by 1 and the settings passed to saveSettings carry the new value;
\* when replaceSelection throws nothing is spent and saveSettings is not called;
\* no other step (a rejected call, a remote failure, the local save, the
\* settings tab) changes creditsBalance.
C24_CreditPerInsertedUrl ==
    [][variant = "credits"
       => IF \E c \in Calls : UrlReturned(c) /\ "insert" \notin runs'[c].faults
          THEN \E c \in Calls :
                  /\ UrlReturned(c)
                  /\ settings'.creditsBalance = settings.creditsBalance - 1
                  /\ runs'[c].saved = <<settings'.creditsBalance>>
          ELSE /\ settings'.creditsBalance = settings.creditsBalance
               /\ \A c \in Calls : UrlReturned(c) => runs'[c].saved = <<>>]_vars

\* A call waits for saveSettings after it spent the one credit there was.
C24_SavingSpentCredit ==
    /\ variant = "credits"
    /\ \E c \in Calls :
          /\ runs[c].pc = "save"
          /\ runs[c].saved = <<MaxCredits - 1>>
          /\ settings.creditsBalance = MaxCredits - 1

----------------------------------------------------------------------------
\* The progress notice, checked under Spec

\* C25 (progress notice). A call that starts creates the progress notice
\* exactly when showUploadProgress is true at that moment, as its first notice;
\* the notice is hidden before the local save starts, and is not displayed any
\* more once the call has returned.
C25_ProgressNotice ==
    /\ last.call = "started"
       => /\ runs[last.run].progress =
                 IF settings.showUploadProgress THEN "shown" ELSE "none"
          /\ runs[last.run].notices =
                 IF settings.showUploadProgress
                 THEN <<NoticeUploading(variant)>> ELSE <<>>
    /\ \A c \in Calls :
          /\ runs[c].pc \in {"path", "buffer", "write"} => runs[c].progress # "shown"
          /\ Returned(c) => runs[c].progress # "shown"
          /\ runs[c].progress = "none"
             <=> \A i \in DOMAIN runs[c].notices :
                    runs[c].notices[i] # NoticeUploading(variant)

\* A call that showed the progress notice waits for path allocation of the local
\* save with the notice hidden.
C25_HiddenBeforeLocalSave ==
    \E c \in Calls :
        /\ runs[c].pc = "path"
        /\ runs[c].progress = "hidden"
        /\ runs[c].notices[1] = NoticeUploading(variant)

----------------------------------------------------------------------------
\* What the user sees of an intercepted event, checked under SpecEvents

\* C26 (no silent loss). A paste or drop event whose default handling was
\* suppressed was handed to uploadImageFile, and that call either returned at a
\* check with its notice (also when another call held isUploading) or started a
\* run; and every run that has returned made an insertion or showed a notice
\* other than the progress notice.
C26_NoSilentLoss ==
    /\ (last.kind \in {"paste", "drop"} /\ last.prevented)
       => /\ last.handed # ""
          /\ IF last.call = "started"
             THEN last.run \in PastGate
             ELSE last.call \in {"busy", "config", "credits"} /\ Len(last.notices) = 1
    /\ \A c \in Calls :
          Returned(c)
          => \/ runs[c].inserted # <<>>
             \/ \E i \in DOMAIN runs[c].notices :
                   runs[c].notices[i] # NoticeUploading(variant)

\* An image was dropped while another call held isUploading: the default
\* handling was suppressed and the busy notice shown.
C26_DropRefusedAsBusy ==
    /\ last.kind = "drop"
    /\ last.prevented
    /\ last.call = "busy"
    /\ last.notices = <<NoticeBusy>>
    /\ PastGate # {}

====
